---- MODULE Spec2Model ----
(***************************************************************************)
(* A model of the ZIP writer of zlib/google (zip_writer.cc, zip_writer.h)  *)
(* and of its caller Zip() in zip.cc.                                      *)
(*                                                                         *)
(* The writer is the state machine of ZipWriter: its fields zip_file_,     *)
(* root_dir_, pending_entries_, progress_callback_, and the position of    *)
(* the running call inside FlushEntriesIfNeeded (its locals                *)
(* relative_paths, absolute_paths, files, i).  The codec (minizip) and the *)
(* FileAccessor are the environment: every result they return is chosen    *)
(* nondeterministically where the code reads it; the calls the writer      *)
(* makes to them are recorded in zip_calls and accessor_call.              *)
(*                                                                         *)
(* DCHECKs are modelled as in a build with DCHECK_IS_ON: a failed DCHECK   *)
(* is recorded in dcheck_failed and ends the run.                          *)
(*                                                                         *)
(* Two drivers use the writer.  "Zip" is zip.cc's Zip(): it sets the       *)
(* progress callback, calls WriteEntries once and destroys the writer; its *)
(* environment can fail in every way the code tests for.  "unit" calls the *)
(* private methods AddEntries and Close directly, so that a flush is also  *)
(* entered with a queue left over by earlier calls; its environment fails  *)
(* only by a path that has gone.                                           *)
(*                                                                         *)
(* Four specifications share the variables.  Spec is the writer under its  *)
(* two drivers.  SpecZip is a whole call of Zip() of zip.cc: the           *)
(* breadth-first search of a source tree through FileAccessor::List (or    *)
(* the explicit list of params.src_files), then the writer.  SpecUnzip is  *)
(* UnzipWithFilterAndWriters on an archive; the ZipReader it drives is the *)
(* environment: its entries are given and its results are chosen.          *)
(* SpecRoundTrip is Zip() followed, when it succeeds, by Unzip() of the    *)
(* archive that was written.  FairSpec is Spec with the fairness of the    *)
(* flush loops, for the termination of a flush.                            *)
(***************************************************************************)
EXTENDS Naturals, Sequences, FiniteSets, TLC

\* --------------------------------------------------------------- bounds
\* The largest number of paths a run submits to the writer.
MaxPaths == 101

\* WriteEntries is given the lists of every length up to MaxList, and the
\* lists of the lengths next to the flush threshold (BoundarySizes).
MaxList == 52

\* zip_writer.cc: const size_t kMaxPendingEntriesCount = 50;
kMaxPendingEntriesCount == 50

VARIABLES
  driver,              \* who drives the writer: "Zip" (zip.cc Zip()) or "unit" (direct calls)
  root_dir_,           \* ZipWriter::root_dir_
  zip_file_,           \* ZipWriter::zip_file_: "open" or "null"
  pending_entries_,    \* ZipWriter::pending_entries_: sequence of FilePath
  progress_callback_,  \* ZipWriter::progress_callback_: "unset", "null" or "set"
  progress_runs,       \* number of times progress_callback_ was run
  pc,                  \* position of the program
  call,                \* the ZipWriter call in progress
  force,               \* FlushEntriesIfNeeded's parameter
  relative_paths,      \* FlushEntriesIfNeeded's locals
  absolute_paths,
  files,
  i,
  flush_ok,            \* the value FlushEntriesIfNeeded returns
  ret,                 \* last value returned by each ZipWriter method
  zip_calls,           \* the calls made to the codec, in order
  accessor_call,       \* the last call made to the FileAccessor, with its paths
  accessor_count,      \* number of calls made to the FileAccessor
  no_time,             \* the paths GetLastModifiedTime gave no time for
  submitted,           \* number of paths handed to AddEntries so far
  flush_start,         \* pending_entries_.size() when the running flush was entered
  flush_mark,          \* Len(zip_calls), accessor_count when that flush was entered
  batches,             \* sizes of the batches the running flush has opened
  dcheck_failed,       \* the DCHECKs that failed
  params,              \* zip.cc Zip(): its parameter (ZipParams)
  tree,                \* the paths that exist under params.src_dir
  q,                   \* Zip(): the queue of its breadth-first search
  all_files,           \* Zip(): the paths the search has recorded
  files_to_add,        \* Zip(): the list handed to the writer
  list_calls,          \* the calls Zip() made to FileAccessor::List, with their results
  hidden_tests,        \* the paths IsHiddenFile was evaluated on
  filter_calls,        \* the paths params.filter_callback was run on
  zip_ret,             \* the value Zip() returned: "none", "true" or "false"
  archive,             \* the entries stored in the archive a ZipReader reads, in order
  reader_pos,          \* the index of the ZipReader's current entry
  filter_cb,           \* UnzipWithFilterAndWriters' parameter filter_cb
  unzip_calls,         \* the calls the extraction made to the reader and to its callbacks
  filter_runs,         \* the indices of the entries the extraction ran filter_cb on, in order
  unzip_ret            \* the value the extraction returned: "none", "true" or "false"

vars == <<driver, root_dir_, zip_file_, pending_entries_, progress_callback_,
          progress_runs, pc, call, force, relative_paths, absolute_paths,
          files, i, flush_ok, ret, zip_calls, accessor_call, accessor_count,
          no_time, submitted, flush_start, flush_mark, batches, dcheck_failed,
          params, tree, q, all_files, files_to_add, list_calls, hidden_tests,
          filter_calls, zip_ret, archive, reader_pos, filter_cb, unzip_calls,
          filter_runs, unzip_ret>>

\* ------------------------------------------------------------ base::FilePath
\* A FilePath is the sequence of its components; an absolute path starts
\* with the root component "/".
IsAbsolute(path) == Len(path) > 0 /\ path[1] = "/"

\* FilePath::Append(component): the receiver followed by the (relative) argument.
FilePathAppend(dir, path) == dir \o path

RECURSIVE JoinFrom(_, _)
JoinFrom(path, k) ==
  IF k > Len(path) THEN <<>>
  ELSE IF k = Len(path) THEN <<path[k]>>
  ELSE <<path[k], "/">> \o JoinFrom(path, k + 1)

\* FilePath::AsUTF8Unsafe of a relative path: the components joined by the
\* separator, as a sequence of tokens.
AsUTF8Unsafe(path) == JoinFrom(path, 1)

\* ------------------------------------------------------------ the source tree
\* The i-th path a run submits.  Every fourth one lies in a subdirectory.
RelPath(n) == IF n % 4 = 0 THEN <<"sub", ToString(n)>> ELSE <<ToString(n)>>

SourcePaths == [n \in 1..MaxPaths |-> RelPath(n)]

\* What the source tree holds at the n-th path: every fifth one is a
\* directory, the others are files of 0, 1 or 2 buffers of content.
IsDirectory(n) == n % 5 = 0
FileChunks(n) == n % 3

\* The content of the file at the n-th path, one element per buffer that
\* ReadAtCurrentPos fills: the k-th buffer of file n holds <<n, k>>.
FileContent(n) == [k \in 1..FileChunks(n) |-> <<n, k>>]

\* The directory tree Zip() searches.  A node is a path and the number that
\* tells what the path holds (IsDirectory, FileChunks); a directory
\* enumerates its children in the order of this list.
Node(path, n) == [path |-> path, id |-> n]

TreeNodes ==
  << Node(<<"a.txt">>, 1), Node(<<".b.txt">>, 2), Node(<<"g">>, 20), Node(<<"d">>, 5),
     Node(<<"g", "y">>, 6), Node(<<"d", ".h">>, 10), Node(<<"d", "e">>, 15),
     Node(<<"d", ".h", "x">>, 7), Node(<<"d", "e", "f">>, 4) >>

TreePaths == {TreeNodes[k].path : k \in DOMAIN TreeNodes}

PathId(path) ==
  IF path \in TreePaths
  THEN TreeNodes[CHOOSE k \in DOMAIN TreeNodes : TreeNodes[k].path = path].id
  ELSE CHOOSE n \in 1..MaxPaths : SourcePaths[n] = path

\* FilePath::BaseName and FilePath::DirName of a non-empty relative path.
BaseName(path) == path[Len(path)]
DirName(path) == SubSeq(path, 1, Len(path) - 1)

\* value()[0] of a one-component path: the first character of the name.
FirstChar(name) ==
  CASE name \in {".b.txt", ".h"} -> "."
    [] name = "a.txt" -> "a"
    [] OTHER -> name

\* zip.cc: IsHiddenFile.
IsHiddenFileNever(file_path) == FALSE
IsHiddenFile(file_path) == FirstChar(BaseName(file_path)) = "."

\* The trees a run searches: the sets of nodes that hold, with a node, the
\* directory it lies in.
Trees ==
  {t \in SUBSET TreePaths : \A p \in t : Len(p) > 1 => DirName(p) \in t}

\* base::FileEnumerator on src_dir_.Append(path), not recursive: the names
\* in the directory, files and directories.
RECURSIVE EnumerateFrom(_, _, _)
EnumerateFrom(t, path, k) ==
  IF k > Len(TreeNodes) THEN <<>>
  ELSE LET p == TreeNodes[k].path
       IN IF p \in t /\ Len(p) = Len(path) + 1 /\ DirName(p) = path
          THEN <<[name |-> BaseName(p), is_directory |-> IsDirectory(TreeNodes[k].id)]>>
                 \o EnumerateFrom(t, path, k + 1)
          ELSE EnumerateFrom(t, path, k + 1)

\* DirectFileAccessor::List: path.Append(info.GetName()) is pushed to subdirs
\* for a directory, to files otherwise.  A FileAccessor that fails returns
\* false and leaves both vectors empty.
List(t, path, ok) ==
  LET infos == EnumerateFrom(t, path, 1)
      IsDir(info) == info.is_directory
      IsFile(info) == ~info.is_directory
      Paths(seq) == [k \in 1..Len(seq) |-> FilePathAppend(path, <<seq[k].name>>)]
  IN IF ok THEN [ok |-> TRUE, files |-> Paths(SelectSeq(infos, IsFile)),
                 subdirs |-> Paths(SelectSeq(infos, IsDir))]
     ELSE [ok |-> FALSE, files |-> <<>>, subdirs |-> <<>>]

\* The filter callbacks of zip.cc, and one of a caller of Zip().
ExcludeNoFilesFilter(file_path) == TRUE
ExcludeHiddenFilesFilter(file_path) == ~IsHiddenFile(file_path)
ExcludeSomeFilter(file_path) == BaseName(file_path) \notin {"e", "a.txt"}

FilterCallbacks ==
  {"null", "ExcludeNoFilesFilter", "ExcludeHiddenFilesFilter", "ExcludeSomeFilter"}

\* params.filter_callback.Run(file_path).
Run(filter_callback, file_path) ==
  CASE filter_callback = "ExcludeNoFilesFilter" -> ExcludeNoFilesFilter(file_path)
    [] filter_callback = "ExcludeHiddenFilesFilter" -> ExcludeHiddenFilesFilter(file_path)
    [] filter_callback = "ExcludeSomeFilter" -> ExcludeSomeFilter(file_path)

\* The two roots a writer is created with.
RootDirs == { <<"src">>, <<"/", "src">> }

\* ------------------------------------------------------------ the codec calls
ZipCall(f, name, ok) == [fn |-> f, name |-> name, ok |-> ok]

\* ZipWriter::OpenNewFileEntry: the name handed to ZipOpenNewFileInZip.
EntryNameAppendsSlash(path, is_directory) == AsUTF8Unsafe(path) \o <<"/">>
EntryName(path, is_directory) ==
  IF is_directory THEN AsUTF8Unsafe(path) \o <<"/">> ELSE AsUTF8Unsafe(path)

OpenNewFileEntry(path, is_directory, ok) ==
  ZipCall("zipOpenNewFileInZip", EntryName(path, is_directory), ok)

CloseNewFileEntry(ok) == ZipCall("zipCloseFileInZip", <<>>, ok)

\* zipWriteInFileInZip(zip_file_, buf, num_bytes): the call carries the buffer.
WriteInFileInZip(buf, ok) ==
  [fn |-> "zipWriteInFileInZip", name |-> <<>>, ok |-> ok, buf |-> buf]

\* The faults the environment can inject while a file of `chunks` buffers
\* is streamed: none, a read error at the k-th read, a write error at the
\* k-th write.
Faults(chunks) ==
  {[kind |-> "none", at |-> 0]}
  \cup {[kind |-> "read", at |-> k] : k \in 1..(chunks + 1)}
  \cup {[kind |-> "write", at |-> k] : k \in 1..chunks}

\* ZipWriter::AddFileContent from the k-th iteration of its loop on; `file`
\* is the content of the opened File, one element per buffer read.
RECURSIVE AddFileContentFrom(_, _, _)
AddFileContentFrom(file, fault, k) ==
  IF fault.kind = "read" /\ fault.at = k THEN [calls |-> <<>>, ok |-> FALSE]
  ELSE IF k > Len(file) THEN [calls |-> <<>>, ok |-> TRUE]
  ELSE IF fault.kind = "write" /\ fault.at = k
    THEN [calls |-> <<WriteInFileInZip(file[k], FALSE)>>, ok |-> FALSE]
  ELSE LET rest == AddFileContentFrom(file, fault, k + 1)
       IN [calls |-> <<WriteInFileInZip(file[k], TRUE)>> \o rest.calls,
           ok |-> rest.ok]

AddFileContent(file, fault) == AddFileContentFrom(file, fault, 1)

\* ZipWriter::AddFileEntry.  info_ok, open_ok, fault and close_ok are what
\* File::GetInfo, the codec and the reads return.
AddFileEntryLeavesOpenOnFailure(path, file, info_ok, open_ok, fault, close_ok) ==
  IF ~info_ok THEN [calls |-> <<>>, ok |-> FALSE]
  ELSE IF ~open_ok
    THEN [calls |-> <<OpenNewFileEntry(path, FALSE, FALSE)>>, ok |-> FALSE]
  ELSE LET content == AddFileContent(file, fault)
       IN IF ~content.ok
          THEN [calls |-> <<OpenNewFileEntry(path, FALSE, TRUE)>> \o content.calls,
                ok |-> FALSE]
          ELSE [calls |-> <<OpenNewFileEntry(path, FALSE, TRUE)>> \o content.calls
                            \o <<CloseNewFileEntry(close_ok)>>,
                ok |-> close_ok]
AddFileEntry(path, file, info_ok, open_ok, fault, close_ok) ==
  IF ~info_ok THEN [calls |-> <<>>, ok |-> FALSE]
  ELSE IF ~open_ok
    THEN [calls |-> <<OpenNewFileEntry(path, FALSE, FALSE)>>, ok |-> FALSE]
  ELSE LET content == AddFileContent(file, fault)
       IN [calls |-> <<OpenNewFileEntry(path, FALSE, TRUE)>> \o content.calls
                       \o <<CloseNewFileEntry(close_ok)>>,
           ok |-> close_ok /\ content.ok]

\* ZipWriter::AddDirectoryEntry: OpenNewFileEntry(...) && CloseNewFileEntry().
AddDirectoryEntry(path, open_ok, close_ok) ==
  IF ~open_ok
    THEN [calls |-> <<OpenNewFileEntry(path, TRUE, FALSE)>>, ok |-> FALSE]
  ELSE [calls |-> <<OpenNewFileEntry(path, TRUE, TRUE), CloseNewFileEntry(close_ok)>>,
        ok |-> close_ok]

\* ------------------------------------------------------------ helpers
Min(a, b) == IF a < b THEN a ELSE b
B2S(b) == IF b THEN "true" ELSE "false"
NoRet == [AddEntries |-> "none", Close |-> "none", WriteEntries |-> "none"]

\* The paths of the next submission: the paths submitted+1 .. submitted+n.
NewPaths(n) == [k \in 1..n |-> SourcePaths[submitted + k]]

\* The lengths next to the flush threshold: 49, 50, 51 and 101.
BoundarySizes == {kMaxPendingEntriesCount - 1, kMaxPendingEntriesCount,
                  kMaxPendingEntriesCount + 1, 2 * kMaxPendingEntriesCount + 1}

\* The lengths of the lists handed to WriteEntries.
ListSizes == (0..MaxList) \cup BoundarySizes

\* ------------------------------------------------------------ Init
\* ZipParams: the fields of zip.h that Zip() reads.
ZipParams(src_dir, src_files, include_hidden_files, filter_callback, file_accessor) ==
  [src_dir |-> src_dir, src_files |-> src_files,
   include_hidden_files |-> include_hidden_files,
   filter_callback |-> filter_callback, file_accessor |-> file_accessor]

\* The state of Zip()'s locals when no call of Zip() is modelled.
NoZip ==
  /\ params = ZipParams(<<>>, <<>>, TRUE, "null", "null")
  /\ tree = {}
  /\ q = <<>>
  /\ all_files = <<>>
  /\ files_to_add = <<>>
  /\ list_calls = <<>>
  /\ hidden_tests = {}
  /\ filter_calls = {}
  /\ zip_ret = "none"

\* The fields of a ZipWriter that the constructor leaves empty, and the
\* records of what the writer did, empty as well.
NewWriter ==
  /\ pending_entries_ = <<>>
  /\ progress_callback_ = "unset"
  /\ progress_runs = 0
  /\ call = "none"
  /\ force = FALSE
  /\ relative_paths = <<>>
  /\ absolute_paths = <<>>
  /\ files = <<>>
  /\ i = 0
  /\ flush_ok = TRUE
  /\ ret = NoRet
  /\ zip_calls = <<>>
  /\ accessor_call = [fn |-> "none", args |-> <<>>]
  /\ accessor_count = 0
  /\ no_time = {}
  /\ submitted = 0
  /\ flush_start = 0
  /\ flush_mark = [zip |-> 0, accessor |-> 0]
  /\ batches = <<>>
  /\ dcheck_failed = {}

\* The state of the extraction when no extraction is modelled.
NoUnzip ==
  /\ archive = <<>>
  /\ reader_pos = 0
  /\ filter_cb = "null"
  /\ unzip_calls = <<>>
  /\ filter_runs = <<>>
  /\ unzip_ret = "none"

Init ==
  /\ driver \in {"Zip", "unit"}
  /\ root_dir_ \in RootDirs
  /\ zip_file_ = "open"
  /\ pc = IF driver = "Zip" THEN "created" ELSE "ready"
  /\ NewWriter
  /\ NoZip
  /\ NoUnzip

\* ------------------------------------------------------------ actions
zip_locals == <<params, tree, q, all_files, files_to_add, list_calls, hidden_tests,
                filter_calls, zip_ret>>
unzip_locals == <<archive, reader_pos, filter_cb, unzip_calls, filter_runs, unzip_ret>>
config == <<driver, root_dir_, progress_callback_, progress_runs, zip_locals,
            unzip_locals>>
locals == <<relative_paths, absolute_paths, files, i>>
accessor == <<accessor_call, accessor_count, no_time>>
flush_history == <<flush_start, flush_mark, batches>>

\* The condition of FlushEntriesIfNeeded's first statement, under which it
\* returns true at once.
EarlyReturnUnlessForced(pending, f) == ~f
EarlyReturn(pending, f) == Len(pending) < kMaxPendingEntriesCount /\ ~f

\* FlushEntriesIfNeeded(f) is entered with the queue `pending`: the early
\* return of its first statement, or its while loop.
FlushEntry(f, pending) ==
  /\ force' = f
  /\ flush_start' = Len(pending)
  /\ flush_mark' = [zip |-> Len(zip_calls), accessor |-> accessor_count]
  /\ batches' = <<>>
  /\ flush_ok' = TRUE
  /\ pc' = IF EarlyReturn(pending, f) THEN "flush_ret" ELSE "while"

\* zip.cc Zip(): zip_writer->SetProgressCallback(params.progress_callback, ...),
\* for a caller of Zip that gives a progress callback.
SetProgressCallback ==
  /\ pc = "created"
  /\ progress_callback_' = "set"
  /\ pc' = "ready"
  /\ UNCHANGED <<driver, root_dir_, progress_runs, zip_locals, unzip_locals, zip_file_,
                 pending_entries_, call, force, locals, flush_ok, ret, zip_calls,
                 accessor, submitted, flush_history, dcheck_failed>>

\* ZipWriter::AddEntries(paths), entered; `who` is the call in progress.
EnterAddEntries(who, paths) ==
  /\ zip_file_ = "open"
  /\ submitted + Len(paths) <= MaxPaths
  /\ pending_entries_' = pending_entries_ \o paths
  /\ submitted' = submitted + Len(paths)
  /\ call' = who
  /\ FlushEntry(FALSE, pending_entries_')
  /\ UNCHANGED <<config, zip_file_, locals, ret, zip_calls, accessor, dcheck_failed>>

\* zip.cc Zip(): return zip_writer->WriteEntries(files_to_add);
\* WriteEntries starts with AddEntries(paths).
WriteEntries ==
  /\ pc = "ready" /\ driver = "Zip"
  /\ \E n \in ListSizes :
       /\ submitted + n <= MaxPaths
       /\ EnterAddEntries("WriteEntries.AddEntries", NewPaths(n))

\* A direct call of AddEntries.
AddEntries ==
  /\ pc = "ready" /\ driver = "unit"
  /\ ret.AddEntries # "false"
  /\ \E n \in BoundarySizes :
       /\ submitted + n <= MaxPaths
       /\ EnterAddEntries("AddEntries", NewPaths(n))

\* ZipWriter::Close(), entered: FlushEntriesIfNeeded(/*force=*/true).
EnterClose(who) ==
  /\ call' = who
  /\ FlushEntry(TRUE, pending_entries_)
  /\ UNCHANGED <<config, zip_file_, pending_entries_, locals, zip_calls, accessor,
                 submitted, dcheck_failed>>

\* A direct call of Close.
Close ==
  /\ pc = "ready" /\ driver = "unit"
  /\ zip_file_ = "open"
  /\ EnterClose("Close")
  /\ UNCHANGED ret

\* The slot OpenFilesForReading returns for a path: an invalid File for a
\* directory, else the File opened on the path (whose validity is read, and
\* chosen, when the slot is processed).
OpenSlot(path) == IF IsDirectory(PathId(path)) THEN "invalid" ELSE "file"

\* The size of the next batch.
EntryCountUnbounded(pending) == Len(pending)
EntryCount(pending) == Min(Len(pending), kMaxPendingEntriesCount)

\* The condition of FlushEntriesIfNeeded's while loop.
WhileConditionStrict(pending, f) ==
  Len(pending) > kMaxPendingEntriesCount \/ (f /\ pending # <<>>)
WhileConditionUnforced(pending, f) ==
  Len(pending) >= kMaxPendingEntriesCount
WhileCondition(pending, f) ==
  Len(pending) >= kMaxPendingEntriesCount \/ (f /\ pending # <<>>)

\* pending_entries_.erase(begin, begin + entry_count): the queue without its
\* first entry_count entries.
EraseNothing(pending, entry_count) == pending
Erase(pending, entry_count) == SubSeq(pending, entry_count + 1, Len(pending))

\* One evaluation of the while condition and, when it holds, the head of
\* the loop body up to the call of OpenFilesForReading.
FlushWhile ==
  /\ pc = "while"
  /\ IF WhileCondition(pending_entries_, force)
     THEN LET entry_count == EntryCount(pending_entries_)
          IN /\ relative_paths' = SubSeq(pending_entries_, 1, entry_count)
             /\ absolute_paths' = [k \in 1..entry_count |->
                                     FilePathAppend(root_dir_, pending_entries_[k])]
             /\ pending_entries_' = Erase(pending_entries_, entry_count)
             /\ files' = [k \in 1..entry_count |-> OpenSlot(pending_entries_[k])]
             /\ accessor_call' = [fn |-> "OpenFilesForReading", args |-> absolute_paths']
             /\ accessor_count' = accessor_count + 1
             /\ batches' = Append(batches, entry_count)
             /\ i' = 1
             /\ pc' = "for"
             /\ UNCHANGED flush_ok
     ELSE /\ pc' = "flush_ret"
          /\ flush_ok' = TRUE
          /\ UNCHANGED <<locals, pending_entries_, accessor_call, accessor_count,
                         batches>>
  /\ UNCHANGED <<config, zip_file_, call, force, ret, zip_calls, no_time, submitted,
                 flush_start, flush_mark, dcheck_failed>>

\* What the environment returns while one slot is processed: whether the
\* opened File is valid, whether GetLastModifiedTime gives a time, and the
\* results of File::GetInfo, of the codec calls and of the reads.
Scenario(valid, lm, info, open, fault, close) ==
  [valid |-> valid, lm |-> lm, info |-> info, open |-> open, fault |-> fault,
   close |-> close]

NoFault == [kind |-> "none", at |-> 0]

Scenarios(n) ==
  IF IsDirectory(n)
  THEN {Scenario(FALSE, FALSE, TRUE, TRUE, NoFault, TRUE),
        Scenario(FALSE, TRUE, TRUE, FALSE, NoFault, TRUE)}
       \cup {Scenario(FALSE, TRUE, TRUE, TRUE, NoFault, c) : c \in BOOLEAN}
  ELSE {Scenario(FALSE, lm, TRUE, TRUE, NoFault, TRUE) : lm \in BOOLEAN}
       \cup {Scenario(TRUE, TRUE, FALSE, TRUE, NoFault, TRUE),
             Scenario(TRUE, TRUE, TRUE, FALSE, NoFault, TRUE)}
       \cup {Scenario(TRUE, TRUE, TRUE, TRUE, f, c) :
               f \in Faults(FileChunks(n)), c \in BOOLEAN}

\* The "unit" driver runs the writer on a codec and on files that do not
\* fail: the one failure it meets is a path that has gone (an invalid slot
\* and no modification time).
Reliable(n, s) ==
  /\ s.info /\ s.open /\ s.close /\ s.fault = NoFault
  /\ (s.valid \/ ~s.lm \/ IsDirectory(n))

EnvScenarios(n) ==
  IF driver = "unit" THEN {s \in Scenarios(n) : Reliable(n, s)} ELSE Scenarios(n)

\* The body of the for loop of FlushEntriesIfNeeded for one slot, under the
\* scenario s: the codec calls made, the accessor calls made, whether
\* GetLastModifiedTime gave no time, the DCHECK that failed, and whether the
\* entry was added.
ProcessSlotIgnoresNullTime(path, n, s) ==
  IF s.valid
  THEN LET r == AddFileEntry(path, FileContent(n), s.info, s.open, s.fault, s.close)
       IN [calls |-> r.calls, ok |-> r.ok, accessor |-> <<>>, null_time |-> FALSE,
           dcheck |-> {}]
  ELSE LET r == AddDirectoryEntry(path, s.open, s.close)
       IN [calls |-> r.calls, ok |-> r.ok, accessor |-> <<"GetLastModifiedTime">>,
           null_time |-> ~s.lm, dcheck |-> {}]
ProcessSlot(path, n, s) ==
  IF s.valid
  THEN LET r == AddFileEntry(path, FileContent(n), s.info, s.open, s.fault, s.close)
       IN [calls |-> r.calls, ok |-> r.ok, accessor |-> <<>>, null_time |-> FALSE,
           dcheck |-> {}]
  ELSE IF ~s.lm
    THEN [calls |-> <<>>, ok |-> FALSE, accessor |-> <<"GetLastModifiedTime">>,
          null_time |-> TRUE, dcheck |-> {}]
  ELSE IF ~IsDirectory(n)
    THEN [calls |-> <<>>, ok |-> FALSE,
          accessor |-> <<"GetLastModifiedTime", "DirectoryExists">>,
          null_time |-> FALSE, dcheck |-> {"DirectoryExists"}]
  ELSE LET r == AddDirectoryEntry(path, s.open, s.close)
       IN [calls |-> r.calls, ok |-> r.ok,
           accessor |-> <<"GetLastModifiedTime", "DirectoryExists">>,
           null_time |-> FALSE, dcheck |-> {}]

\* Where the for loop goes after a slot: a failed DCHECK ends the run, a
\* failed entry returns false, the last slot goes back to the while loop.
NextPcIgnoresFailure(ok, dcheck_ok, is_last) ==
  IF is_last THEN "while" ELSE "for"
NextPc(ok, dcheck_ok, is_last) ==
  IF ~dcheck_ok THEN "crashed"
  ELSE IF ~ok THEN "flush_ret"
  ELSE IF is_last THEN "while" ELSE "for"

FlushFor ==
  /\ pc = "for"
  /\ \E s \in EnvScenarios(PathId(relative_paths[i])) :
       LET r == ProcessSlot(relative_paths[i], PathId(relative_paths[i]), s)
       IN /\ zip_calls' = zip_calls \o r.calls
          /\ accessor_call' =
               IF r.accessor = <<>> THEN accessor_call
               ELSE [fn |-> r.accessor[Len(r.accessor)], args |-> <<absolute_paths[i]>>]
          /\ accessor_count' = accessor_count + Len(r.accessor)
          /\ no_time' = IF r.null_time THEN no_time \cup {relative_paths[i]} ELSE no_time
          /\ dcheck_failed' = dcheck_failed \cup r.dcheck
          /\ flush_ok' = r.ok
          /\ pc' = NextPc(r.ok, r.dcheck = {}, i = Len(files))
  /\ IF pc' = "for"
     THEN i' = i + 1 /\ UNCHANGED <<relative_paths, absolute_paths, files>>
     ELSE IF pc' = "crashed"
     THEN UNCHANGED locals
     ELSE relative_paths' = <<>> /\ absolute_paths' = <<>> /\ files' = <<>> /\ i' = 0
  /\ UNCHANGED <<config, zip_file_, pending_entries_, call, force, ret, submitted,
                 flush_history>>

\* FlushEntriesIfNeeded returns to AddEntries, which returns its value.
\* Called directly, AddEntries returns to the driver.
AddEntriesReturn ==
  /\ pc = "flush_ret" /\ call = "AddEntries"
  /\ ret' = [ret EXCEPT !.AddEntries = B2S(flush_ok)]
  /\ call' = "none"
  /\ pc' = "ready"
  /\ UNCHANGED <<config, zip_file_, pending_entries_, force, locals, flush_ok,
                 zip_calls, accessor, submitted, flush_history, dcheck_failed>>

\* WriteEntries: return AddEntries(paths) && Close();
\* AddEntries has returned: Close() is entered, or WriteEntries returns false.
WriteEntriesAddReturn ==
  /\ pc = "flush_ret" /\ call = "WriteEntries.AddEntries"
  /\ IF flush_ok
     THEN /\ ret' = [ret EXCEPT !.AddEntries = "true"]
          /\ EnterClose("WriteEntries.Close")
     ELSE /\ ret' = [ret EXCEPT !.AddEntries = "false", !.WriteEntries = "false"]
          /\ call' = "none"
          /\ pc' = "done"
          /\ UNCHANGED <<config, zip_file_, pending_entries_, force, locals,
                         flush_ok, zip_calls, accessor, submitted, flush_history,
                         dcheck_failed>>

\* ZipWriter::Close: zip_file_ after the call.
ZipFileKeptOnFailure(success) == IF success THEN "null" ELSE "open"
ZipFileAfterClose(success) == "null"

\* ZipWriter::Close: FlushEntriesIfNeeded(true) && zipClose(...) calls
\* zipClose only when the flush has succeeded.
CallsZipCloseAlways(flush_succeeded) == TRUE
CallsZipClose(flush_succeeded) == flush_succeeded

\* ZipWriter::Close after its flush: zipClose is called when the flush
\* succeeded, zip_file_ is reset, and success is returned (through
\* WriteEntries when Close was called from it).
CloseReturn ==
  /\ pc = "flush_ret" /\ call \in {"Close", "WriteEntries.Close"}
  /\ \E zip_close_ok \in (IF CallsZipClose(flush_ok) THEN BOOLEAN ELSE {FALSE}) :
       LET success == flush_ok /\ zip_close_ok
       IN /\ zip_calls' = IF CallsZipClose(flush_ok)
                          THEN Append(zip_calls, ZipCall("zipClose", <<>>, zip_close_ok))
                          ELSE zip_calls
          /\ zip_file_' = ZipFileAfterClose(success)
          /\ ret' = IF call = "Close"
                    THEN [ret EXCEPT !.Close = B2S(success)]
                    ELSE [ret EXCEPT !.Close = B2S(success),
                                     !.WriteEntries = B2S(success)]
  /\ call' = "none"
  /\ pc' = "done"
  /\ UNCHANGED <<config, pending_entries_, force, locals, flush_ok, accessor,
                 submitted, flush_history, dcheck_failed>>

\* ZipWriter::~ZipWriter: DCHECK(pending_entries_.empty()).
Destroy ==
  /\ pc = "done"
  /\ dcheck_failed' = IF pending_entries_ = <<>> THEN dcheck_failed
                      ELSE dcheck_failed \cup {"pending_entries_.empty"}
  /\ pc' = "destroyed"
  /\ UNCHANGED <<config, zip_file_, pending_entries_, call, force, locals, flush_ok,
                 ret, zip_calls, accessor, submitted, flush_history>>

\* ------------------------------------------------------------ zip.cc Zip()
writer == <<zip_file_, pending_entries_, progress_callback_, progress_runs, call,
            force, locals, flush_ok, ret, zip_calls, accessor, submitted,
            flush_history, dcheck_failed>>

\* The explicit lists a caller hands to Zip() in params.src_files.
ExplicitLists ==
  { << <<".b.txt">>, <<"d", "e", "f">>, <<"a.txt">> >>,
    << <<"d", "e">>, <<"d">>, <<"d", ".h", "x">>, <<"g", "y">> >> }

\* The directory Zip() archives.
SrcDir == <<"/", "src">>

\* The calls of Zip(): without a list on every tree (with every filter by
\* the DirectFileAccessor, without filter by a FileAccessor of the caller),
\* with a list on the whole tree.
ZipInputs ==
  {[params |-> ZipParams(SrcDir, <<>>, h, f, "null"), tree |-> t] :
     h \in BOOLEAN, f \in FilterCallbacks, t \in Trees}
  \cup {[params |-> ZipParams(SrcDir, <<>>, h, "null", "custom"), tree |-> t] :
           h \in BOOLEAN, t \in Trees}
  \cup {[params |-> ZipParams(SrcDir, l, h, f, "null"), tree |-> TreePaths] :
           l \in ExplicitLists, h \in BOOLEAN, f \in FilterCallbacks}

\* Zip() is entered: no writer exists yet, its locals are empty.
ZipEntered ==
  /\ root_dir_ = params.src_dir
  /\ zip_file_ = "null"
  /\ pc = "Zip"
  /\ NewWriter
  /\ q = <<>>
  /\ all_files = <<>>
  /\ files_to_add = <<>>
  /\ list_calls = <<>>
  /\ hidden_tests = {}
  /\ filter_calls = {}
  /\ zip_ret = "none"
  /\ NoUnzip

InitZip ==
  /\ driver = "Zip"
  /\ \E in \in ZipInputs : params = in.params /\ tree = in.tree
  /\ ZipEntered

\* Zip(): if (files_to_add.empty()) { ... the search ... }
NeedsTraversalAlways(src_files) == TRUE
NeedsTraversal(src_files) == src_files = <<>>

\* Zip(): Paths files_to_add = params.src_files, and the head of the search:
\* std::queue<base::FilePath> q({{}}).
ZipStart ==
  /\ pc = "Zip"
  /\ files_to_add' = params.src_files
  /\ IF NeedsTraversal(files_to_add')
     THEN q' = << <<>> >> /\ pc' = "bfs"
     ELSE q' = q /\ pc' = "create"
  /\ UNCHANGED <<driver, root_dir_, writer, params, tree, all_files, list_calls,
                 hidden_tests, filter_calls, zip_ret, unzip_locals>>

\* Zip(): the lambda exclude.
Exclude(p, path) ==
  \/ ~p.include_hidden_files /\ IsHiddenFile(path)
  \/ /\ p.filter_callback # "null"
     /\ ~Run(p.filter_callback, FilePathAppend(p.src_dir, path))

\* std::queue::push and pop.
QueuePushAfterFront(queue, path) == <<Head(queue), path>> \o Tail(queue)
QueuePush(queue, path) == Append(queue, path)
QueuePop(queue) == Tail(queue)

RECURSIVE PushAll(_, _, _)
PushAll(queue, paths, k) ==
  IF k > Len(paths) THEN queue
  ELSE PushAll(QueuePush(queue, paths[k]), paths, k + 1)

\* The results List can give: a FileAccessor of the caller may fail.
ListResults(p) == IF p.file_accessor = "null" THEN {TRUE} ELSE BOOLEAN

\* Zip(): one iteration of the for loop of the search: List(q.front()), the
\* loop over files, the loop over dirs, q.pop(); when the queue is empty
\* files_to_add = all_files.
ZipList ==
  /\ pc = "bfs"
  /\ \E ok \in ListResults(params) :
       LET listed == List(tree, Head(q), ok)
           Keep(path) == ~Exclude(params, path)
           kept_files == SelectSeq(listed.files, Keep)
           kept_dirs == SelectSeq(listed.subdirs, Keep)
           children == {listed.files[k] : k \in DOMAIN listed.files}
                         \cup {listed.subdirs[k] : k \in DOMAIN listed.subdirs}
           tested == IF params.include_hidden_files THEN {} ELSE children
           run_on == IF params.filter_callback = "null" THEN {}
                     ELSE {path \in children :
                             params.include_hidden_files \/ ~IsHiddenFile(path)}
       IN /\ list_calls' = Append(list_calls, [path |-> Head(q), ok |-> listed.ok])
          /\ all_files' = all_files \o kept_files \o kept_dirs
          /\ q' = QueuePop(PushAll(q, kept_dirs, 1))
          /\ hidden_tests' = hidden_tests \cup tested
          /\ filter_calls' = filter_calls
                               \cup {FilePathAppend(params.src_dir, path) : path \in run_on}
  /\ IF q' = <<>>
     THEN files_to_add' = all_files' /\ pc' = "create"
     ELSE UNCHANGED <<files_to_add, pc>>
  /\ UNCHANGED <<driver, root_dir_, writer, params, tree, zip_ret, unzip_locals>>

\* Zip(): zip_writer = internal::ZipWriter::Create(...); if (!zip_writer)
\* return false.
ZipCreateWriter ==
  /\ pc = "create"
  /\ \E created \in BOOLEAN :
       IF created
       THEN zip_file_' = "open" /\ pc' = "created" /\ UNCHANGED zip_ret
       ELSE zip_ret' = "false" /\ pc' = "zip_done" /\ UNCHANGED zip_file_
  /\ UNCHANGED <<driver, root_dir_, pending_entries_, progress_callback_, progress_runs,
                 call, force, locals, flush_ok, ret, zip_calls, accessor, submitted,
                 flush_history, dcheck_failed, params, tree, q, all_files,
                 files_to_add, list_calls, hidden_tests, filter_calls, unzip_locals>>

\* Zip(): return zip_writer->WriteEntries(files_to_add);
ZipWriteEntries ==
  /\ pc = "ready"
  /\ EnterAddEntries("WriteEntries.AddEntries", files_to_add)

\* Zip() returns what WriteEntries returned, the writer being destroyed.
ZipReturn ==
  /\ pc = "destroyed"
  /\ zip_ret' = ret.WriteEntries
  /\ pc' = "zip_done"
  /\ UNCHANGED <<driver, root_dir_, writer, params, tree, q, all_files, files_to_add,
                 list_calls, hidden_tests, filter_calls, unzip_locals>>

NextZip ==
  \/ ZipStart
  \/ ZipList
  \/ ZipCreateWriter
  \/ SetProgressCallback
  \/ ZipWriteEntries
  \/ FlushWhile
  \/ FlushFor
  \/ WriteEntriesAddReturn
  \/ CloseReturn
  \/ Destroy
  \/ ZipReturn

SpecZip == InitZip /\ [][NextZip]_vars

\* ------------------------------------------------------------ zip.cc Unzip
\* An entry as the archive stores it: the name it was opened under and the
\* buffers written to it.
Stored(name, data) == [name |-> name, data |-> data]

\* The path a stored name denotes: its components, without the separators.
RECURSIVE Components(_, _)
Components(name, k) ==
  IF k > Len(name) THEN <<>>
  ELSE IF name[k] = "/" THEN Components(name, k + 1)
  ELSE <<name[k]>> \o Components(name, k + 1)

\* An unsafe path: one that would lead out of the destination directory.
IsUnsafe(path) == IsAbsolute(path) \/ \E k \in 1..Len(path) : path[k] = ".."

\* ZipReader::current_entry_info() for a stored entry.
EntryInfo(stored) ==
  [file_path |-> Components(stored.name, 1),
   is_directory |-> stored.name # <<>> /\ stored.name[Len(stored.name)] = "/",
   is_unsafe |-> IsUnsafe(Components(stored.name, 1)),
   data |-> stored.data]

\* ZipReader::HasMore.
HasMore(entries, pos) == pos <= Len(entries)

\* A call the extraction makes, on the entry of index pos.
UnzipCall(f, pos, path, ok) == [fn |-> f, entry |-> pos, path |-> path, ok |-> ok]

\* reader.ExtractCurrentEntry(writer.get(), max): the call and what the
\* writer delegate received.
ExtractCurrentEntry(pos, info, ok) ==
  [fn |-> "ExtractCurrentEntry", entry |-> pos, path |-> info.file_path, ok |-> ok,
   data |-> IF ok THEN info.data ELSE <<>>]

\* What the reader and the callbacks return during one iteration.
UnzipResults == [open : BOOLEAN, done : BOOLEAN, advance : BOOLEAN]

\* The part of the loop body of UnzipWithFilterAndWriters that follows the
\* unsafe test: the filter, the callbacks and AdvanceToNextEntry.
AcceptEntrySkipsAdvanceResult(pos, info, accepted, r) ==
  LET made == IF ~accepted THEN <<>>
              ELSE IF info.is_directory
                THEN <<UnzipCall("directory_creator", pos, info.file_path, r.done)>>
              ELSE <<UnzipCall("writer_factory", pos, info.file_path, TRUE),
                     ExtractCurrentEntry(pos, info, r.done)>>
  IN IF accepted /\ ~r.done THEN [calls |-> made, ok |-> FALSE]
     ELSE [calls |-> Append(made, UnzipCall("AdvanceToNextEntry", pos, <<>>, r.advance)),
           ok |-> TRUE]
AcceptEntryAbortsOnRejected(pos, info, accepted, r) ==
  LET made == IF ~accepted THEN <<>>
              ELSE IF info.is_directory
                THEN <<UnzipCall("directory_creator", pos, info.file_path, r.done)>>
              ELSE <<UnzipCall("writer_factory", pos, info.file_path, TRUE),
                     ExtractCurrentEntry(pos, info, r.done)>>
  IN IF ~accepted \/ ~r.done THEN [calls |-> made, ok |-> FALSE]
     ELSE [calls |-> Append(made, UnzipCall("AdvanceToNextEntry", pos, <<>>, r.advance)),
           ok |-> r.advance]
AcceptEntry(pos, info, accepted, r) ==
  LET made == IF ~accepted THEN <<>>
              ELSE IF info.is_directory
                THEN <<UnzipCall("directory_creator", pos, info.file_path, r.done)>>
              ELSE <<UnzipCall("writer_factory", pos, info.file_path, TRUE),
                     ExtractCurrentEntry(pos, info, r.done)>>
  IN IF accepted /\ ~r.done THEN [calls |-> made, ok |-> FALSE]
     ELSE [calls |-> Append(made, UnzipCall("AdvanceToNextEntry", pos, <<>>, r.advance)),
           ok |-> r.advance]

\* The loop body of UnzipWithFilterAndWriters for the entry of index pos:
\* the calls made and whether the loop goes on (false: return false).
ExtractEntryIgnoresUnsafe(pos, stored, filter, r) ==
  LET info == EntryInfo(stored)
      opened == UnzipCall("OpenCurrentEntryInZip", pos, <<>>, r.open)
  IN IF ~r.open THEN [calls |-> <<opened>>, filter_runs |-> <<>>, ok |-> FALSE]
     ELSE LET rest == AcceptEntry(pos, info, Run(filter, info.file_path), r)
          IN [calls |-> <<opened>> \o rest.calls, filter_runs |-> <<pos>>,
              ok |-> rest.ok]
ExtractEntryFiltersFirst(pos, stored, filter, r) ==
  LET info == EntryInfo(stored)
      opened == UnzipCall("OpenCurrentEntryInZip", pos, <<>>, r.open)
  IN IF ~r.open THEN [calls |-> <<opened>>, filter_runs |-> <<>>, ok |-> FALSE]
     ELSE IF Run(filter, info.file_path) /\ info.is_unsafe
       THEN [calls |-> <<opened>>, filter_runs |-> <<pos>>, ok |-> FALSE]
     ELSE LET rest == AcceptEntry(pos, info, Run(filter, info.file_path), r)
          IN [calls |-> <<opened>> \o rest.calls, filter_runs |-> <<pos>>,
              ok |-> rest.ok]
ExtractEntry(pos, stored, filter, r) ==
  LET info == EntryInfo(stored)
      opened == UnzipCall("OpenCurrentEntryInZip", pos, <<>>, r.open)
  IN IF ~r.open THEN [calls |-> <<opened>>, filter_runs |-> <<>>, ok |-> FALSE]
     ELSE IF info.is_unsafe THEN [calls |-> <<opened>>, filter_runs |-> <<>>, ok |-> FALSE]
     ELSE LET rest == AcceptEntry(pos, info, Run(filter, info.file_path), r)
          IN [calls |-> <<opened>> \o rest.calls, filter_runs |-> <<pos>>,
              ok |-> rest.ok]

unzip_others == <<driver, root_dir_, writer, zip_locals, archive, filter_cb>>

\* UnzipWithFilterCallback opens the file, UnzipWithFilterAndWriters opens
\* the reader on it: each returns false when that fails.
UnzipOpen ==
  /\ pc = "Unzip"
  /\ \E file_valid, opened \in BOOLEAN :
       IF ~file_valid
       THEN /\ unzip_ret' = "false" /\ pc' = "unzip_done"
            /\ UNCHANGED <<unzip_calls, reader_pos>>
       ELSE /\ unzip_calls' =
                 Append(unzip_calls, UnzipCall("OpenFromPlatformFile", 0, <<>>, opened))
            /\ IF opened
               THEN reader_pos' = 1 /\ pc' = "unzip_loop" /\ UNCHANGED unzip_ret
               ELSE unzip_ret' = "false" /\ pc' = "unzip_done" /\ UNCHANGED reader_pos
  /\ UNCHANGED <<unzip_others, filter_runs>>

\* One evaluation of while (reader.HasMore()) and, when it holds, the loop
\* body; when it does not, return true.
UnzipLoop ==
  /\ pc = "unzip_loop"
  /\ IF HasMore(archive, reader_pos)
     THEN \E r \in UnzipResults :
            LET step == ExtractEntry(reader_pos, archive[reader_pos], filter_cb, r)
            IN /\ unzip_calls' = unzip_calls \o step.calls
               /\ filter_runs' = filter_runs \o step.filter_runs
               /\ IF step.ok
                  THEN reader_pos' = reader_pos + 1 /\ UNCHANGED <<pc, unzip_ret>>
                  ELSE /\ unzip_ret' = "false" /\ pc' = "unzip_done"
                       /\ UNCHANGED reader_pos
     ELSE /\ unzip_ret' = "true" /\ pc' = "unzip_done"
          /\ UNCHANGED <<unzip_calls, filter_runs, reader_pos>>
  /\ UNCHANGED unzip_others

\* The longest archive an extraction is run on.
MaxEntries == 3

\* The entries the archives are made of.
StoredEntries ==
  { Stored(<<"a.txt">>, << <<1, 1>> >>), Stored(<<"d", "/">>, <<>>),
    Stored(<<"d", "/", ".h">>, <<>>), Stored(<<"..", "/", "x">>, << <<7, 1>> >>),
    Stored(<<"..", "/", ".h">>, << <<10, 1>> >>), Stored(<<"e", "/">>, <<>>) }

Archives == UNION {[1..n -> StoredEntries] : n \in 0..MaxEntries}

\* The filters an extraction is run with; Unzip() uses ExcludeNoFilesFilter.
UnzipFilters == FilterCallbacks \ {"null"}

InitUnzip ==
  /\ driver = "Unzip"
  /\ root_dir_ = <<>>
  /\ zip_file_ = "null"
  /\ pc = "Unzip"
  /\ NewWriter
  /\ NoZip
  /\ archive \in Archives
  /\ filter_cb \in UnzipFilters
  /\ reader_pos = 0
  /\ unzip_calls = <<>>
  /\ filter_runs = <<>>
  /\ unzip_ret = "none"

NextUnzip ==
  \/ UnzipOpen
  \/ UnzipLoop

SpecUnzip == InitUnzip /\ [][NextUnzip]_vars

\* ------------------------------------------------------------ Zip() then Unzip()
\* What the codec has stored from the k-th call on: the buffers written to
\* the entry that is open, and the entries opened.
RECURSIVE DataFrom(_, _)
DataFrom(calls, k) ==
  IF k > Len(calls) \/ calls[k].fn # "zipWriteInFileInZip" THEN <<>>
  ELSE (IF calls[k].ok THEN <<calls[k].buf>> ELSE <<>>) \o DataFrom(calls, k + 1)

RECURSIVE ArchiveFrom(_, _)
ArchiveFrom(calls, k) ==
  IF k > Len(calls) THEN <<>>
  ELSE IF calls[k].fn = "zipOpenNewFileInZip" /\ calls[k].ok
    THEN <<Stored(calls[k].name, DataFrom(calls, k + 1))>> \o ArchiveFrom(calls, k + 1)
  ELSE ArchiveFrom(calls, k + 1)

\* A directory tree is archived with Zip(), without filter and without list,
\* by the DirectFileAccessor.
RoundTripInputs ==
  {[params |-> ZipParams(SrcDir, <<>>, h, "null", "null"), tree |-> t] :
     h \in BOOLEAN, t \in Trees}

InitRoundTrip ==
  /\ driver = "RoundTrip"
  /\ \E in \in RoundTripInputs : params = in.params /\ tree = in.tree
  /\ ZipEntered

\* Zip() has returned true: Unzip(src_file, dest_dir) is called on the
\* archive it has written, with ExcludeNoFilesFilter.
RoundTripUnzip ==
  /\ pc = "zip_done" /\ driver = "RoundTrip"
  /\ zip_ret = "true"
  /\ archive' = ArchiveFrom(zip_calls, 1)
  /\ filter_cb' = "ExcludeNoFilesFilter"
  /\ pc' = "Unzip"
  /\ UNCHANGED <<driver, root_dir_, writer, zip_locals, reader_pos, unzip_calls,
                 filter_runs, unzip_ret>>

NextRoundTrip ==
  \/ NextZip
  \/ RoundTripUnzip
  \/ NextUnzip

SpecRoundTrip == InitRoundTrip /\ [][NextRoundTrip]_vars

Next ==
  \/ SetProgressCallback
  \/ WriteEntries
  \/ AddEntries
  \/ Close
  \/ FlushWhile
  \/ FlushFor
  \/ AddEntriesReturn
  \/ WriteEntriesAddReturn
  \/ CloseReturn
  \/ Destroy

Spec == Init /\ [][Next]_vars

\* ------------------------------------------------------------ the claims
IsOpenCall(c) == c.fn = "zipOpenNewFileInZip"
IsCloseCall(c) == c.fn = "zipCloseFileInZip"

\* The open-entry calls made to the codec, in order.
Opens == SelectSeq(zip_calls, IsOpenCall)

\* The names the k-th submitted path can be opened under: as a file, as a
\* directory.
SourceNames ==
  [k \in 1..MaxPaths |-> {AsUTF8Unsafe(SourcePaths[k]),
                          AsUTF8Unsafe(SourcePaths[k]) \o <<"/">>}]

\* The opened entries are the first submitted paths, in order.
OpensArePrefix ==
  LET opens == Opens
  IN \A k \in 1..Len(opens) : opens[k].name \in SourceNames[k]

WriteEntriesReturned == ret.WriteEntries # "none"

\* C1 as stated: once WriteEntries has returned, the codec has been asked to
\* open as many entries as paths were submitted, the k-th of them under the
\* name of the k-th submitted path.
C1_OpensEqualSubmitted ==
  WriteEntriesReturned => (Len(Opens) = submitted /\ OpensArePrefix)

\* C1 amended: for a writer driven by WriteEntries (and for one driven by
\* direct calls as long as no AddEntries call has failed), at every moment
\* the entries opened in the codec are the first submitted paths, in
\* submission order (the k-th opened entry is the k-th submitted path); their
\* number equals the number of submitted paths when WriteEntries returns
\* success, and never exceeds it.
C1_OpensArePrefixAndAllOnSuccess ==
  /\ Len(Opens) <= submitted
  /\ (driver = "Zip" \/ ret.AddEntries # "false") => OpensArePrefix
  /\ (ret.WriteEntries = "true" \/ (ret.Close = "true" /\ ret.AddEntries # "false"))
       => Len(Opens) = submitted

C1_Witness ==
  /\ ret.WriteEntries = "true"
  /\ submitted = MaxPaths
  /\ Len(Opens) = MaxPaths

\* C2: every batch is min(queue length, 50) paths long: each call of
\* OpenFilesForReading carries between 1 and 50 paths, and the writer never
\* holds more than 50 files.
C2_BatchSize ==
  /\ Len(files) <= kMaxPendingEntriesCount
  /\ \A b \in 1..Len(batches) :
       batches[b] >= 1 /\ batches[b] <= kMaxPendingEntriesCount
  /\ accessor_call.fn = "OpenFilesForReading" =>
       /\ Len(accessor_call.args) >= 1
       /\ Len(accessor_call.args) <= kMaxPendingEntriesCount
  /\ pc = "for" =>
       /\ Len(files) = Len(relative_paths)
       /\ Len(absolute_paths) = Len(relative_paths)
       /\ batches[Len(batches)] = Len(files)
       /\ Len(files) = Min(Len(files) + Len(pending_entries_), kMaxPendingEntriesCount)

C2_Witness ==
  /\ pc = "for"
  /\ batches = <<kMaxPendingEntriesCount, kMaxPendingEntriesCount>>
  /\ Len(pending_entries_) = 1
  /\ Len(files) = kMaxPendingEntriesCount

\* C3: at the return of a flush entered with exactly 50 pending entries,
\* exactly one batch, of 50, was opened; entered with 51, two batches (50
\* then 1) were opened only if the flush was forced, and were opened if it
\* was forced and did not fail, while an unforced flush opened the batch of
\* 50 and left one entry pending; an unforced flush entered with fewer than
\* 50 made no accessor call and no codec call.
C3_ThresholdBoundary ==
  pc = "flush_ret" =>
    /\ flush_start = kMaxPendingEntriesCount => batches = <<kMaxPendingEntriesCount>>
    /\ flush_start = kMaxPendingEntriesCount + 1 =>
         /\ batches = <<kMaxPendingEntriesCount, 1>> => force
         /\ (force /\ flush_ok) =>
              batches = <<kMaxPendingEntriesCount, 1>> /\ pending_entries_ = <<>>
         /\ ~force => batches = <<kMaxPendingEntriesCount>> /\ Len(pending_entries_) = 1
    /\ (flush_start < kMaxPendingEntriesCount /\ ~force) =>
         /\ batches = <<>>
         /\ Len(zip_calls) = flush_mark.zip
         /\ accessor_count = flush_mark.accessor
         /\ Len(pending_entries_) = flush_start

C3_Witness ==
  /\ pc = "flush_ret"
  /\ flush_start = kMaxPendingEntriesCount + 1
  /\ force
  /\ batches = <<kMaxPendingEntriesCount, 1>>

\* C4: once Close has returned, with success or with failure, zip_file_ is
\* null.
C4_HandleNullAfterClose ==
  ret.Close # "none" => zip_file_ = "null"

C4_Witness ==
  /\ ret.Close = "false"
  /\ ~flush_ok
  /\ zip_file_ = "null"

\* C5: when the writer is destroyed after WriteEntries has returned, its
\* pending_entries_ is empty: the destructor's DCHECK holds.
C5_QueueEmptyAtDestruction ==
  (pc = "destroyed" /\ WriteEntriesReturned) =>
    /\ pending_entries_ = <<>>
    /\ "pending_entries_.empty" \notin dcheck_failed

\* The calls a step adds to zip_calls, when it only adds.
ZipCallsGrow ==
  /\ Len(zip_calls') >= Len(zip_calls)
  /\ SubSeq(zip_calls', 1, Len(zip_calls)) = zip_calls
AppendedCalls == SubSeq(zip_calls', Len(zip_calls) + 1, Len(zip_calls'))

\* C6: a failure while a slot is processed ends the flush at once: the step
\* in which an entry fails leaves the loops, having opened no entry but
\* (at most) the failing one, and the next step returns false from
\* AddEntries or Close (and from WriteEntries) with no further codec call and
\* the queue untouched; once WriteEntries has returned false no codec call
\* is made any more; no step ever removes or reorders a call already made to
\* the codec (nothing is rolled back).
C6_FailureAbortsFlush ==
  [][ /\ ZipCallsGrow
      /\ (pc = "for" /\ ~flush_ok') =>
           /\ pc' \in {"flush_ret", "crashed"}
           /\ Len(SelectSeq(AppendedCalls, IsOpenCall)) <= 1
      /\ (pc = "flush_ret" /\ ~flush_ok) =>
           /\ zip_calls' = zip_calls
           /\ pending_entries_' = pending_entries_
           /\ call = "AddEntries" => (ret'.AddEntries = "false" /\ pc' = "ready")
           /\ call = "WriteEntries.AddEntries" =>
                (ret'.AddEntries = "false" /\ ret'.WriteEntries = "false" /\ pc' = "done")
           /\ call \in {"Close", "WriteEntries.Close"} =>
                (ret'.Close = "false" /\ pc' = "done")
           /\ call = "WriteEntries.Close" => ret'.WriteEntries = "false"
      /\ ret.WriteEntries = "false" => zip_calls' = zip_calls
    ]_vars

C6_Witness ==
  /\ pc = "done"
  /\ ret.WriteEntries = "false"
  /\ ret.AddEntries = "false"
  /\ pending_entries_ # <<>>
  /\ \E j \in 1..Len(zip_calls) : IsCloseCall(zip_calls[j]) /\ zip_calls[j].ok
  /\ ~zip_calls[Len(zip_calls)].ok

\* C7: a path whose slot was invalid and for which GetLastModifiedTime gave
\* no time is never opened in the codec, neither as a file nor as a
\* directory, and the call in which that happened returns failure (so does
\* WriteEntries).
C7_NoEntryForMissingPath ==
  /\ \A path \in no_time :
       LET names == {AsUTF8Unsafe(path), AsUTF8Unsafe(path) \o <<"/">>}
       IN \A j \in 1..Len(zip_calls) : zip_calls[j].name \notin names
  /\ no_time # {} =>
       \/ pc = "flush_ret" /\ ~flush_ok
       \/ ret.AddEntries = "false"
       \/ ret.Close = "false"
  /\ (no_time # {} /\ WriteEntriesReturned) => ret.WriteEntries = "false"

C7_Witness ==
  /\ no_time # {}
  /\ ret.WriteEntries = "false"
  /\ Len(zip_calls) > 0

\* The name of the entry of the k-th submitted path: with a trailing
\* separator exactly when its slot is invalid.
ExpectedNames ==
  [k \in 1..MaxPaths |->
     IF OpenSlot(SourcePaths[k]) = "invalid"
     THEN AsUTF8Unsafe(SourcePaths[k]) \o <<"/">>
     ELSE AsUTF8Unsafe(SourcePaths[k])]

\* C8: the name an entry is opened under is the relative path, unchanged,
\* when the path's slot was valid, and the relative path followed by one
\* "/" when the slot was invalid; an entry opened under a name that ends in
\* "/" is closed by the very next codec call.
C8_EntryNames ==
  LET opens == Opens
  IN /\ (driver = "Zip" \/ ret.AddEntries # "false") =>
          \A k \in 1..Len(opens) : opens[k].name = ExpectedNames[k]
     /\ \A j \in 1..Len(zip_calls) :
          (IsOpenCall(zip_calls[j]) /\ zip_calls[j].ok
             /\ zip_calls[j].name[Len(zip_calls[j].name)] = "/") =>
            (j < Len(zip_calls) /\ IsCloseCall(zip_calls[j + 1]))

C8_Witness ==
  /\ ret.WriteEntries = "true"
  /\ \E j \in 1..Len(zip_calls) :
       IsOpenCall(zip_calls[j]) /\ zip_calls[j].name = <<"5", "/">>
  /\ \E j \in 1..Len(zip_calls) :
       IsOpenCall(zip_calls[j]) /\ zip_calls[j].name = <<"sub", "/", "4">>

\* C9: every path handed to the FileAccessor is relative.
C9_AccessorPathsRelative ==
  \A k \in 1..Len(accessor_call.args) : ~IsAbsolute(accessor_call.args[k])

\* C10: when a progress callback was set, it has been run at least once by
\* the time WriteEntries has returned.
C10_FinalProgressCallback ==
  (progress_callback_ = "set" /\ WriteEntriesReturned) => progress_runs >= 1

\* C20 as stated: within a flush that is not forced, the loop opens a further
\* batch after a processed one only while more than 50 entries are pending.
C20_RepeatsOnlyAboveThreshold ==
  [][ (pc = "while" /\ batches # <<>> /\ ~force /\ pc' = "for") =>
        Len(pending_entries_) > kMaxPendingEntriesCount
    ]_vars

\* C20 amended: within one flush, after a batch is processed the loop opens a
\* further batch, for a flush that is not forced, exactly while at least 50
\* entries remain pending (50 included), and for a forced flush exactly while
\* any entry remains pending; otherwise the flush returns success.
C20_RepeatsFromThreshold ==
  [][ (pc = "while" /\ batches # <<>>) =>
        /\ pc' \in {"for", "flush_ret"}
        /\ ~force => (pc' = "for" <=> Len(pending_entries_) >= kMaxPendingEntriesCount)
        /\ force => (pc' = "for" <=> pending_entries_ # <<>>)
        /\ pc' = "flush_ret" => flush_ok'
    ]_vars

C20_Witness ==
  /\ pc = "for"
  /\ ~force
  /\ flush_start = 2 * kMaxPendingEntriesCount
  /\ batches = <<kMaxPendingEntriesCount, kMaxPendingEntriesCount>>
  /\ pending_entries_ = <<>>

\* ------------------------------------------------------------ the claims on Zip()
\* The names that start with a dot, and the names ExcludeSomeFilter rejects.
HiddenNames == {".b.txt", ".h"}
RejectedNames ==
  [f \in FilterCallbacks |->
     CASE f = "ExcludeHiddenFilesFilter" -> HiddenNames
       [] f = "ExcludeSomeFilter" -> {"e", "a.txt"}
       [] OTHER -> {}]

\* A path is excluded when it is hidden and hidden files are not included, or
\* when the filter rejects it.
IsExcluded(path) ==
  \/ ~params.include_hidden_files /\ BaseName(path) \in HiddenNames
  \/ BaseName(path) \in RejectedNames[params.filter_callback]

\* The paths of the tree that are not excluded and have no excluded ancestor.
Reachable ==
  {path \in tree : \A k \in 1..Len(path) : ~IsExcluded(SubSeq(path, 1, k))}

Traversed == params.src_files = <<>> /\ pc \notin {"Zip", "bfs"}

AllListsOk == \A k \in 1..Len(list_calls) : list_calls[k].ok

NoDuplicates(seq) == \A j, k \in 1..Len(seq) : seq[j] = seq[k] => j = k

\* The paths the FileAccessor has not shown: those below a directory whose
\* List call reported a failure (and gave no listing).
Unlisted ==
  LET failed == {list_calls[k].path : k \in {j \in 1..Len(list_calls) : ~list_calls[j].ok}}
  IN {path \in TreePaths : \E k \in 0..(Len(path) - 1) : SubSeq(path, 1, k) \in failed}

\* C11: with no explicit list, the list the search builds holds no path
\* twice and only paths of the tree that are neither excluded nor below an
\* excluded directory; List is called on the root and on such directories
\* only, never twice on the same one; and once the search is over the list
\* holds every such path that the FileAccessor has listed (every such path
\* of the tree when no List call failed), List was called on each of these
\* directories, and the list is the one handed to the writer.
C11_TraversalList ==
  params.src_files = <<>> =>
    LET reachable == Reachable
        listed == {list_calls[k].path : k \in 1..Len(list_calls)}
        shown == reachable \ Unlisted
    IN /\ NoDuplicates(all_files)
       /\ \A k \in 1..Len(all_files) : all_files[k] \in reachable
       /\ Cardinality(listed) = Len(list_calls)
       /\ \A path \in listed :
            path = <<>> \/ (path \in reachable /\ IsDirectory(PathId(path)))
       /\ AllListsOk => shown = reachable
       /\ Traversed =>
            /\ files_to_add = all_files
            /\ {all_files[k] : k \in 1..Len(all_files)} = shown
            /\ listed = {<<>>} \cup {path \in shown : IsDirectory(PathId(path))}

C11_Witness ==
  /\ zip_ret = "true"
  /\ tree = TreePaths
  /\ ~params.include_hidden_files
  /\ params.filter_callback = "ExcludeSomeFilter"
  /\ all_files = << <<"g">>, <<"d">>, <<"g", "y">> >>
  /\ Len(list_calls) = 3

IsProperPrefix(a, b) == Len(a) < Len(b) /\ SubSeq(b, 1, Len(a)) = a

\* The names the entry of a path can be opened under.
EntryNames(path) == {AsUTF8Unsafe(path), AsUTF8Unsafe(path) \o <<"/">>}

\* C12: the list the search builds is in breadth-first order: a recorded
\* directory comes before every recorded path below it, the depth of the
\* recorded paths never decreases along the list, and the entries opened in
\* the archive are the paths of the list, in the order of the list.
C12_BreadthFirstOrder ==
  params.src_files = <<>> =>
    /\ \A j, k \in 1..Len(all_files) :
         /\ j < k => Len(all_files[j]) <= Len(all_files[k])
         /\ IsProperPrefix(all_files[j], all_files[k]) => j < k
    /\ LET opens == SelectSeq(zip_calls, IsOpenCall)
       IN /\ Len(opens) <= Len(all_files)
          /\ \A k \in 1..Len(opens) : opens[k].name \in EntryNames(all_files[k])
          /\ zip_ret = "true" => Len(opens) = Len(all_files)

C12_Witness ==
  /\ zip_ret = "true"
  /\ params.include_hidden_files
  /\ all_files = << <<"g">>, <<"d">>, <<"g", "y">>, <<"d", ".h">>, <<"d", "e">>,
                    <<"d", ".h", "x">>, <<"d", "e", "f">> >>
  /\ Len(SelectSeq(zip_calls, IsOpenCall)) = 7

\* C13: with a non-empty explicit list, List is never called, neither
\* IsHiddenFile nor the filter is evaluated, nothing is recorded by a search,
\* the list handed to the writer is the supplied list, the writer's queue
\* after AddEntries is that list, and the entries are opened in its order.
C13_ExplicitListVerbatim ==
  params.src_files # <<>> =>
    /\ list_calls = <<>>
    /\ hidden_tests = {}
    /\ filter_calls = {}
    /\ all_files = <<>> /\ q = <<>>
    /\ pc # "Zip" => files_to_add = params.src_files
    /\ submitted \in {0, Len(params.src_files)}
    /\ (call = "WriteEntries.AddEntries" /\ batches = <<>> /\ submitted > 0)
         => pending_entries_ = params.src_files
    /\ LET opens == SelectSeq(zip_calls, IsOpenCall)
       IN /\ Len(opens) <= Len(params.src_files)
          /\ \A k \in 1..Len(opens) : opens[k].name \in EntryNames(params.src_files[k])
          /\ zip_ret = "true" => Len(opens) = Len(params.src_files)

C13_Witness ==
  /\ zip_ret = "true"
  /\ params.src_files = << <<".b.txt">>, <<"d", "e", "f">>, <<"a.txt">> >>
  /\ ~params.include_hidden_files
  /\ params.filter_callback = "ExcludeSomeFilter"
  /\ Len(SelectSeq(zip_calls, IsOpenCall)) = 3

\* C17: when Zip() returns success, no List call, no metadata lookup and no
\* codec call has reported a failure.
C17_AnyFailureFailsZip ==
  zip_ret = "true" =>
    /\ AllListsOk
    /\ no_time = {}
    /\ \A k \in 1..Len(zip_calls) : zip_calls[k].ok

\* ------------------------------------------------------------ the claims on Unzip
IsCallback(c) == c.fn \in {"directory_creator", "writer_factory"}
IsExtraction(c) == c.fn = "ExtractCurrentEntry"

\* The callbacks made so far, in order.
Callbacks == SelectSeq(unzip_calls, IsCallback)

UnsafeAt(k) == EntryInfo(archive[k]).is_unsafe
AcceptedAt(k) == Run(filter_cb, EntryInfo(archive[k]).file_path)

\* C14: no writer factory, directory creator or extraction call is ever made
\* for an unsafe entry or for an entry after it, and the extraction never
\* returns success on an archive that holds one; the step that meets an
\* unsafe entry returns failure and makes no call but the opening of that
\* entry, every call made before staying made.
C14_UnsafeEntryAborts ==
  /\ [](\A k \in 1..Len(archive) :
          UnsafeAt(k) =>
            /\ \A j \in 1..Len(unzip_calls) :
                 (IsCallback(unzip_calls[j]) \/ IsExtraction(unzip_calls[j]))
                   => unzip_calls[j].entry < k
            /\ reader_pos <= k
            /\ unzip_ret # "true")
  /\ [][ (pc = "unzip_loop" /\ HasMore(archive, reader_pos) /\ UnsafeAt(reader_pos)) =>
           /\ unzip_ret' = "false"
           /\ pc' = "unzip_done"
           /\ Len(unzip_calls') = Len(unzip_calls) + 1
           /\ SubSeq(unzip_calls', 1, Len(unzip_calls)) = unzip_calls
           /\ unzip_calls'[Len(unzip_calls')].fn = "OpenCurrentEntryInZip"
       ]_vars

C14_Witness ==
  /\ unzip_ret = "false"
  /\ Len(archive) = 3
  /\ reader_pos = 2
  /\ UnsafeAt(2)
  /\ Len(unzip_calls) = 6
  /\ unzip_calls[3].fn = "writer_factory" /\ unzip_calls[4].ok
  /\ unzip_calls[6] = UnzipCall("OpenCurrentEntryInZip", 2, <<>>, TRUE)

\* C15: the callbacks made are those of the accepted entries among the
\* entries gone through, once each and in archive order, with the entry's
\* path: the directory creator for a directory, the writer factory followed
\* by the extraction for a file; no extraction is made for a rejected entry;
\* a rejection does not end the extraction: a returned failure comes from a
\* failed call or from an unsafe entry.
C15_RejectedEntrySkipped ==
  LET made == Callbacks
  IN /\ \A j \in 1..Len(made) :
          /\ made[j].entry \in 1..Len(archive)
          /\ AcceptedAt(made[j].entry)
          /\ made[j].path = EntryInfo(archive[made[j].entry]).file_path
          /\ made[j].fn = IF EntryInfo(archive[made[j].entry]).is_directory
                          THEN "directory_creator" ELSE "writer_factory"
          /\ j < Len(made) => made[j].entry < made[j + 1].entry
     /\ \A k \in 1..Len(archive) :
          (k < reader_pos /\ AcceptedAt(k)) => \E j \in 1..Len(made) : made[j].entry = k
     /\ \A j \in 1..Len(unzip_calls) :
          IsExtraction(unzip_calls[j]) =>
            /\ AcceptedAt(unzip_calls[j].entry)
            /\ j > 1 /\ unzip_calls[j - 1].fn = "writer_factory"
            /\ unzip_calls[j - 1].entry = unzip_calls[j].entry
     /\ unzip_ret = "true" => reader_pos = Len(archive) + 1
     /\ unzip_ret = "false" =>
          \/ unzip_calls = <<>>
          \/ ~unzip_calls[Len(unzip_calls)].ok
          \/ HasMore(archive, reader_pos) /\ UnsafeAt(reader_pos)

C15_Witness ==
  /\ unzip_ret = "true"
  /\ filter_cb = "ExcludeHiddenFilesFilter"
  /\ Len(archive) = 3
  /\ ~AcceptedAt(2)
  /\ Len(Callbacks) = 2
  /\ Callbacks[1].entry = 1 /\ Callbacks[2].entry = 3
  /\ Callbacks[2].fn = "directory_creator"

CountCalls(f) == Len(SelectSeq(unzip_calls, LAMBDA c : c.fn = f))

\* C16: a call that fails is the last call the extraction makes, and the
\* extraction has then returned failure; the extraction returns success only
\* when no call has failed, every entry was opened and advanced over, and
\* every accepted entry got its callback.
C16_AnyFailureAbortsExtraction ==
  /\ \A j \in 1..Len(unzip_calls) :
       ~unzip_calls[j].ok =>
         /\ j = Len(unzip_calls)
         /\ unzip_ret = "false"
         /\ pc = "unzip_done"
  /\ unzip_ret = "true" =>
       /\ \A j \in 1..Len(unzip_calls) : unzip_calls[j].ok
       /\ reader_pos = Len(archive) + 1
       /\ CountCalls("OpenFromPlatformFile") = 1
       /\ CountCalls("OpenCurrentEntryInZip") = Len(archive)
       /\ CountCalls("AdvanceToNextEntry") = Len(archive)
       /\ \A k \in 1..Len(archive) :
            AcceptedAt(k) =>
              \E j \in 1..Len(unzip_calls) :
                /\ unzip_calls[j].entry = k
                /\ unzip_calls[j].fn =
                     IF EntryInfo(archive[k]).is_directory
                     THEN "directory_creator" ELSE "ExtractCurrentEntry"

C16_Witness ==
  /\ unzip_ret = "false"
  /\ Len(archive) = 3
  /\ reader_pos = 2
  /\ unzip_calls[Len(unzip_calls)] = UnzipCall("AdvanceToNextEntry", 2, <<>>, FALSE)
  /\ CountCalls("directory_creator") = 2

\* ------------------------------------------------------------ the round trip
Ancestors(path) == {SubSeq(path, 1, k) : k \in 1..(Len(path) - 1)}

\* What the extraction has put under the destination directory: the files
\* the writer delegates have written, with their content, and the
\* directories made, those leading to a written or made path included.
DestFiles ==
  {[path |-> unzip_calls[j].path, data |-> unzip_calls[j].data] :
     j \in {k \in 1..Len(unzip_calls) : IsExtraction(unzip_calls[k]) /\ unzip_calls[k].ok}}
DestMade ==
  {unzip_calls[j].path :
     j \in {k \in 1..Len(unzip_calls) :
              unzip_calls[k].fn \in {"directory_creator", "ExtractCurrentEntry"}
                /\ unzip_calls[k].ok}}
DestDirs ==
  {unzip_calls[j].path :
     j \in {k \in 1..Len(unzip_calls) :
              unzip_calls[k].fn = "directory_creator" /\ unzip_calls[k].ok}}
  \cup UNION {Ancestors(path) : path \in DestMade}

\* The part of the source tree that is archived: the paths none of whose
\* components is hidden, or every path when hidden files are included.
Visible ==
  {path \in tree :
     params.include_hidden_files \/ \A k \in 1..Len(path) : path[k] \notin HiddenNames}
SourceFiles ==
  {[path |-> path, data |-> FileContent(PathId(path))] :
     path \in {v \in Visible : ~IsDirectory(PathId(v))}}
SourceDirs == {path \in Visible : IsDirectory(PathId(path))}

\* C18: when Zip() of a tree, then Unzip() of the archive have both returned
\* success, the files under the destination are the files of the source
\* tree that are not hidden nor below a hidden directory (every file when
\* hidden files are included), each with the content of the source file, and
\* the directories under the destination are those of that part of the tree.
C18_RoundTrip ==
  (zip_ret = "true" /\ unzip_ret = "true") =>
    /\ DestFiles = SourceFiles
    /\ DestDirs = SourceDirs

C18_Witness ==
  /\ zip_ret = "true" /\ unzip_ret = "true"
  /\ tree = TreePaths
  /\ ~params.include_hidden_files
  /\ Cardinality(DestFiles) = 3
  /\ DestDirs = { <<"g">>, <<"d">>, <<"d", "e">> }

\* ------------------------------------------------------------ the claims on the queue
\* A call of AddEntries or Close (direct, or made by WriteEntries) has
\* returned and no call is in progress.
Returned ==
  /\ call = "none"
  /\ pc \in {"ready", "done"}
  /\ (ret.AddEntries # "none" \/ ret.Close # "none")

\* The number of calls that returned failure: each has one entry whose
\* processing failed.
FailedReturns ==
  (IF ret.AddEntries = "false" THEN 1 ELSE 0) + (IF ret.Close = "false" THEN 1 ELSE 0)

\* C21: at every return from AddEntries or Close, failure returns included,
\* the pending queue holds the last submitted paths in submission order, and
\* every submitted path that is no longer pending has been processed: it was
\* handed to the codec (an entry was opened for it) or it is the entry whose
\* processing failed.
C21_OnlyProcessedPrefixRemoved ==
  Returned =>
    LET removed == submitted - Len(pending_entries_)
    IN /\ pending_entries_ = SubSeq(SourcePaths, removed + 1, submitted)
       /\ removed <= Len(Opens) + FailedReturns

\* C22: when AddEntries returns success, fewer than 50 entries are pending,
\* whatever the length of the list it was given and whatever was pending
\* before; when the flush of Close succeeds, the queue is empty, and it is
\* still empty when Close has returned.
C22_QueueBoundedAfterSuccess ==
  /\ (pc = "flush_ret" /\ flush_ok /\ ~force) =>
       Len(pending_entries_) < kMaxPendingEntriesCount
  /\ (Returned /\ pc = "ready" /\ ret.AddEntries = "true") =>
       Len(pending_entries_) < kMaxPendingEntriesCount
  /\ (pc = "flush_ret" /\ flush_ok /\ force) => pending_entries_ = <<>>
  /\ (pc \in {"done", "destroyed"} /\ ret.Close # "none" /\ flush_ok) =>
       pending_entries_ = <<>>

\* AddEntries has returned success from a flush entered with 49 entries
\* left by an earlier call and 50 new ones; 49 are still pending.
C22_Witness ==
  /\ Returned /\ pc = "ready"
  /\ ret.AddEntries = "true"
  /\ flush_start = 2 * kMaxPendingEntriesCount - 1
  /\ batches = <<kMaxPendingEntriesCount>>
  /\ Len(pending_entries_) = kMaxPendingEntriesCount - 1

\* ------------------------------------------------------------ the claims on the codec calls
IsWriteCall(c) == c.fn = "zipWriteInFileInZip"
IsFinalizeCall(c) == c.fn = "zipClose"

\* An entry is open after the call c: c is an open-entry call that
\* succeeded, or a write into the open entry.
LeavesEntryOpen(c) == (IsOpenCall(c) /\ c.ok) \/ IsWriteCall(c)

\* The codec calls are bracketed: a call that leaves an entry open is
\* followed by a write into it or by its close-entry call (by the close-entry
\* call when it is a write that failed), and a write or a close-entry call is
\* made only while an entry is open.
Bracketed(calls) ==
  \A j \in 1..Len(calls) :
    LET c == calls[j]
    IN /\ LeavesEntryOpen(c) =>
            /\ j < Len(calls)
            /\ IsCloseCall(calls[j + 1]) \/ (c.ok /\ IsWriteCall(calls[j + 1]))
       /\ (IsWriteCall(c) \/ IsCloseCall(c)) =>
            /\ j > 1
            /\ LeavesEntryOpen(calls[j - 1])

\* The writes of the entry a step has added to zip_calls.
AppendedWrites == SelectSeq(AppendedCalls, IsWriteCall)

\* C23: in every state, between two slots and at every return, the codec
\* calls made so far are bracketed, so that no entry is open (at most one
\* is open at any time, and each opened entry was closed before the next
\* open-entry call and before the flush returned); and a step of the flush
\* that opens a file entry and does not stream the whole content of the file
\* into it (a read or a write failed) still ends with the close-entry call,
\* and the flush returns failure.
C23_EntriesBracketed ==
  /\ [](Bracketed(zip_calls))
  /\ [][ (pc = "for" /\ AppendedCalls # <<>> /\ AppendedCalls[1].ok
            /\ OpenSlot(relative_paths[i]) = "file") =>
           LET writes == AppendedWrites
               complete ==
                 /\ Len(writes) = FileChunks(PathId(relative_paths[i]))
                 /\ \A k \in 1..Len(writes) : writes[k].ok
           IN /\ IsCloseCall(AppendedCalls[Len(AppendedCalls)])
              /\ ~complete => (~flush_ok' /\ pc' = "flush_ret")
        ]_vars

\* A write into an entry has failed, the entry was closed with success by
\* the next call, and the flush is returning failure.
C23_Witness ==
  /\ pc = "flush_ret" /\ ~flush_ok
  /\ Len(zip_calls) >= 4
  /\ IsCloseCall(zip_calls[Len(zip_calls)]) /\ zip_calls[Len(zip_calls)].ok
  /\ IsWriteCall(zip_calls[Len(zip_calls) - 1]) /\ ~zip_calls[Len(zip_calls) - 1].ok
  /\ IsWriteCall(zip_calls[Len(zip_calls) - 2]) /\ zip_calls[Len(zip_calls) - 2].ok

\* C24: whenever the flush reaches the directory branch for a path (its slot
\* is invalid and GetLastModifiedTime gave a time), the path is a directory:
\* DCHECK(file_accessor_->DirectoryExists(absolute_path)) never fails, and
\* the run never ends on it.
C24_DirectoryBranchOnlyForDirectories ==
  /\ "DirectoryExists" \notin dcheck_failed
  /\ pc # "crashed"

\* The positions of the finalize calls (zipClose) among the codec calls.
Finalizes == {j \in 1..Len(zip_calls) : IsFinalizeCall(zip_calls[j])}

\* C25: zipClose is called at most once per writer and is the last codec
\* call; it is called only by a Close whose forced flush succeeded and left
\* the queue empty, and, for a writer driven by WriteEntries (or by direct
\* calls none of which failed), only after an entry was opened for every
\* submitted path and every codec call succeeded; WriteEntries returns
\* success only if zipClose was called and succeeded; when the AddEntries of
\* WriteEntries fails, or when the forced flush fails, zipClose is never
\* called.
C25_FinalizeOnceAfterAllFlushed ==
  LET fin == Finalizes
  IN /\ Cardinality(fin) <= 1
     /\ \A j \in fin :
          /\ j = Len(zip_calls)
          /\ ret.Close # "none"
          /\ flush_ok /\ force
          /\ pending_entries_ = <<>>
          /\ (driver = "Zip" \/ ret.AddEntries # "false") =>
               /\ Len(Opens) = submitted
               /\ \A k \in 1..(j - 1) : zip_calls[k].ok
     /\ ret.WriteEntries = "true" =>
          (fin # {} /\ zip_calls[Len(zip_calls)].ok)
     /\ (driver = "Zip" /\ ret.AddEntries = "false") => fin = {}
     /\ (force /\ ~flush_ok) => fin = {}

\* WriteEntries has returned success for 51 paths, flushed in two batches,
\* and the last codec call is the one zipClose.
C25_Witness ==
  /\ ret.WriteEntries = "true"
  /\ submitted = kMaxPendingEntriesCount + 1
  /\ batches = <<1>>
  /\ Finalizes = {Len(zip_calls)}

\* ------------------------------------------------------------ the claims on the order of the tests
\* C26: the filter is never run on an unsafe entry: it has been run, once
\* and in archive order, on the entries gone through, which are all safe;
\* an unsafe entry that the filter would reject is never skipped: the
\* extraction does not go past it and does not return success, and the step
\* that meets it returns failure without running the filter.
C26_UnsafeTestBeforeFilter ==
  /\ [](/\ \A j \in 1..Len(filter_runs) :
            /\ filter_runs[j] = j
            /\ ~UnsafeAt(j)
        /\ reader_pos > 0 => Len(filter_runs) \in {reader_pos - 1, reader_pos}
        /\ \A k \in 1..Len(archive) :
             (UnsafeAt(k) /\ ~AcceptedAt(k)) => (reader_pos <= k /\ unzip_ret # "true"))
  /\ [][ (pc = "unzip_loop" /\ HasMore(archive, reader_pos) /\ UnsafeAt(reader_pos)
            /\ ~AcceptedAt(reader_pos)) =>
           /\ unzip_ret' = "false"
           /\ pc' = "unzip_done"
           /\ reader_pos' = reader_pos
           /\ filter_runs' = filter_runs
       ]_vars

\* The extraction has returned failure on the second entry, which is unsafe
\* and which the filter would have rejected, after it extracted the first;
\* the filter was run on the first entry only.
C26_Witness ==
  /\ unzip_ret = "false"
  /\ reader_pos = 2
  /\ Len(archive) = 3
  /\ UnsafeAt(2) /\ ~AcceptedAt(2)
  /\ filter_runs = <<1>>
  /\ unzip_calls[Len(unzip_calls)] = UnzipCall("OpenCurrentEntryInZip", 2, <<>>, TRUE)
  /\ \E j \in 1..Len(unzip_calls) : IsExtraction(unzip_calls[j]) /\ unzip_calls[j].ok

\* ------------------------------------------------------------ termination
\* The writer runs on one thread: a call that has been entered keeps
\* running, so the steps of the flush loops are taken as long as they are
\* enabled.
FairSpec == Spec /\ WF_vars(FlushWhile) /\ WF_vars(FlushFor)

InFlush == pc \in {"while", "for"}

\* C27: every flush terminates.  Each iteration of the while loop removes at
\* least one entry from the queue and no step of a flush adds one (the
\* queue only loses entries from its front); a flush that has been entered
\* eventually returns (or the run ends at a failed DCHECK); and when a
\* forced flush returns success the queue is empty.
C27_FlushTerminates ==
  /\ [][ InFlush =>
           /\ Len(pending_entries_') <= Len(pending_entries_)
           /\ pending_entries_' =
                SubSeq(pending_entries_,
                       Len(pending_entries_) - Len(pending_entries_') + 1,
                       Len(pending_entries_))
           /\ (pc = "while" /\ pc' = "for") =>
                Len(pending_entries_') < Len(pending_entries_)
       ]_vars
  /\ [](pc = "flush_ret" /\ force /\ flush_ok => pending_entries_ = <<>>)
  /\ InFlush ~> pc \in {"flush_ret", "crashed"}

\* A forced flush entered with 51 pending entries has returned success
\* after two iterations, with the queue empty.
C27_Witness ==
  /\ pc = "flush_ret"
  /\ force /\ flush_ok
  /\ flush_start = kMaxPendingEntriesCount + 1
  /\ batches = <<kMaxPendingEntriesCount, 1>>
  /\ pending_entries_ = <<>>
====
